---- MODULE Spec2Model ----
(***************************************************************************)
(* A model of the batch pipeline of src/src: the Normalizer                *)
(* (data_preprocessing.py), the Outlier Scorer (anomaly_detection.py), the *)
(* Embedding Generator (embeddings.py) and the batch driver (main.py).     *)
(*                                                                         *)
(* A table (pandas DataFrame) is a record                                  *)
(*   [cols, dtype, rows, iname, idtype, idx]                               *)
(* cols  : the column labels, in order (labels may repeat),                *)
(* dtype : the dtype of each column, by position,                          *)
(* rows  : the rows, each a sequence of cells, by position,                *)
(* iname : the name of the index ("" when it has none),                    *)
(* idtype: the dtype of the index, idx: the index label of each row.       *)
(* A cell is a record [k, s, n]: k is its kind, s its text (a sequence of  *)
(* characters) and n its number.                                           *)
(***************************************************************************)
EXTENDS Integers, Sequences, FiniteSets, TLC

\* ------------------------------------------------------------------ bounds
\* The largest number of rows of an input table.
MaxRows == 2

\* ------------------------------------------------------------------- cells
\* The missing-value marker (NaN, None, NaT).
NaN == [k |-> "nan", s |-> <<>>, n |-> 0]
\* A str object holding the characters s.
Str(s) == [k |-> "str", s |-> s, n |-> 0]
\* A number.
Num(n) == [k |-> "num", s |-> <<>>, n |-> n]
\* A Python int held in an object column (a column of mixed types).
Obj(n) == [k |-> "obj", s |-> <<>>, n |-> n]
\* A timestamp, held as its 19 characters YYYY-MM-DD HH:MM:SS.
Ts(s) == [k |-> "ts", s |-> s, n |-> 0]
\* A bool.
Bool(b) == [k |-> "bool", s |-> <<>>, n |-> IF b THEN 1 ELSE 0]

\* pandas.isna of a cell.
IsNa(v) == v.k = "nan"

\* ----------------------------------------------------------------- strings
Digits == {"0", "1", "2", "3", "4", "5", "6", "7", "8", "9"}
DigitVal(c) == CASE c = "0" -> 0 [] c = "1" -> 1 [] c = "2" -> 2 [] c = "3" -> 3
                 [] c = "4" -> 4 [] c = "5" -> 5 [] c = "6" -> 6 [] c = "7" -> 7
                 [] c = "8" -> 8 [] OTHER -> 9

\* str.upper and str.lower, one character at a time, over the letters a, b.
UpperChar(c) == CASE c = "a" -> "A" [] c = "b" -> "B" [] OTHER -> c
LowerChar(c) == CASE c = "A" -> "a" [] c = "B" -> "b" [] OTHER -> c
Upper(s) == [i \in 1..Len(s) |-> UpperChar(s[i])]
Lower(s) == [i \in 1..Len(s) |-> LowerChar(s[i])]

\* str.strip: the leading and the trailing blanks removed.
RECURSIVE LStrip(_)
LStrip(s) == IF s # <<>> /\ Head(s) = " " THEN LStrip(Tail(s)) ELSE s
RECURSIVE RStrip(_)
RStrip(s) == IF s # <<>> /\ s[Len(s)] = " " THEN RStrip(SubSeq(s, 1, Len(s) - 1)) ELSE s
Strip(s) == RStrip(LStrip(s))

AllDigits(s) == \A i \in 1..Len(s) : s[i] \in Digits
RECURSIVE DecVal(_)
DecVal(s) == IF s = <<>> THEN 0 ELSE 10 * DecVal(SubSeq(s, 1, Len(s) - 1)) + DigitVal(s[Len(s)])

\* The integer literals pd.to_numeric parses: blanks around an optional sign
\* and at least one digit.
IsIntText(s) ==
    LET t == Strip(s)
    IN  /\ t # <<>>
        /\ IF Head(t) = "-" THEN Tail(t) # <<>> /\ AllDigits(Tail(t)) ELSE AllDigits(t)
IntOfText(s) ==
    LET t == Strip(s)
    IN  IF Head(t) = "-" THEN 0 - DecVal(Tail(t)) ELSE DecVal(t)

\* The ISO date YYYY-MM-DD, and the time of day HH:MM:SS.
IsDateText(s) ==
    /\ Len(s) = 10
    /\ s[5] = "-" /\ s[8] = "-"
    /\ AllDigits(SubSeq(s, 1, 4)) /\ AllDigits(SubSeq(s, 6, 7)) /\ AllDigits(SubSeq(s, 9, 10))
    /\ DecVal(SubSeq(s, 6, 7)) \in 1..12
    /\ DecVal(SubSeq(s, 9, 10)) \in 1..31
IsTimeText(s) ==
    /\ Len(s) = 8
    /\ s[3] = ":" /\ s[6] = ":"
    /\ AllDigits(SubSeq(s, 1, 2)) /\ AllDigits(SubSeq(s, 4, 5)) /\ AllDigits(SubSeq(s, 7, 8))
    /\ DecVal(SubSeq(s, 1, 2)) \in 0..23
    /\ DecVal(SubSeq(s, 4, 5)) \in 0..59
    /\ DecVal(SubSeq(s, 7, 8)) \in 0..59
Midnight == <<"0", "0", ":", "0", "0", ":", "0", "0">>
Epoch == <<"1", "9", "7", "0", "-", "0", "1", "-", "0", "1">>

\* pd.to_datetime(errors='coerce') of one cell: a date, or a date and a time,
\* parses to a timestamp; any other text becomes missing; a number counts
\* nanoseconds from the epoch (below one second here).
ToDatetimeCell(v) ==
    CASE v.k = "ts" -> v
      [] v.k = "str" ->
            LET t == Strip(v.s)
            IN  IF IsDateText(t) THEN Ts(t \o <<" ">> \o Midnight)
                ELSE IF /\ Len(t) = 19
                        /\ IsDateText(SubSeq(t, 1, 10))
                        /\ t[11] = " "
                        /\ IsTimeText(SubSeq(t, 12, 19))
                     THEN Ts(t)
                     ELSE NaN
      [] v.k \in {"num", "obj", "bool"} -> Ts(Epoch \o <<" ">> \o Midnight)
      [] OTHER -> NaN

\* pd.to_numeric(errors='coerce') of one cell.
ToNumericCell(v) ==
    CASE v.k = "num" -> v
      [] v.k = "obj" -> Num(v.n)
      [] v.k = "bool" -> Num(v.n)
      [] v.k = "str" -> IF IsIntText(v.s) THEN Num(IntOfText(v.s)) ELSE NaN
      [] OTHER -> NaN

\* An element of Series.str.<method>(): a str is transformed, anything else
\* (a missing value, a non-string object) gives the missing-value marker.
StrApply(mode, v) ==
    IF v.k # "str" THEN NaN
    ELSE CASE mode = "strip" -> Str(Strip(v.s))
           [] mode = "upper" -> Str(Upper(v.s))
           [] mode = "lower" -> Str(Lower(v.s))
           [] OTHER -> Str(Upper(Strip(v.s)))

\* ------------------------------------------------------------------ tables
NRows(df) == Len(df.rows)
NCols(df) == Len(df.cols)
\* col in df.columns
HasCol(df, c) == \E i \in 1..NCols(df) : df.cols[i] = c
\* The positions that carry the label c.
Positions(df, c) == {i \in 1..NCols(df) : df.cols[i] = c}
\* The first position that carries the label c.
Pos(df, c) == CHOOSE i \in Positions(df, c) : \A j \in Positions(df, c) : i <= j
\* The cells of the column at position i.
Column(df, i) == [r \in 1..NRows(df) |-> df.rows[r][i]]

\* The elements of s at the positions in K, in order.
RECURSIVE PickFrom(_, _, _)
PickFrom(s, K, i) ==
    IF i > Len(s) THEN <<>>
    ELSE IF i \in K THEN <<s[i]>> \o PickFrom(s, K, i + 1)
         ELSE PickFrom(s, K, i + 1)
Pick(s, K) == PickFrom(s, K, 1)

\* The table with only the rows at the positions in K.
KeepRows(df, K) == [df EXCEPT !.rows = Pick(df.rows, K), !.idx = Pick(df.idx, K)]

\* The table with the column at position i replaced (df[col] = values).
SetColumn(df, i, values, dt) ==
    [df EXCEPT !.rows = [r \in 1..NRows(df) |-> [df.rows[r] EXCEPT ![i] = values[r]]],
               !.dtype = [df.dtype EXCEPT ![i] = dt]]

\* df[c] = values when c is not yet a column: appended as the last column.
AppendColumn(df, c, values, dt) ==
    [df EXCEPT !.cols = Append(df.cols, c),
               !.dtype = Append(df.dtype, dt),
               !.rows = [r \in 1..NRows(df) |-> Append(df.rows[r], values[r])]]

\* df[c] = values.
Assign(df, c, values, dt) ==
    IF HasCol(df, c) THEN SetColumn(df, Pos(df, c), values, dt)
    ELSE AppendColumn(df, c, values, dt)

\* The result of a guarded step: the table it leaves and whether it finished
\* without raising.
Done(df) == [df |-> df, ok |-> TRUE]
Raised(df) == [df |-> df, ok |-> FALSE]

\* ---------------------------------------------------------- cleaning steps
\* The rows DataFrame.drop_duplicates keeps: the first of each group of rows
\* equal in every column (missing values compare equal; the index is ignored).
FirstOccurrences(df) ==
    {i \in 1..NRows(df) : \A j \in 1..(i - 1) : df.rows[j] # df.rows[i]}
DropDuplicates(df) == KeepRows(df, FirstOccurrences(df))

\* Whether df[c].str exists: c labels one column, of dtype object, whose
\* non-missing values are not all non-strings (pandas infers "string", "empty"
\* or "mixed"; it raises AttributeError for any other column).
StrAccessorOK(df, c) ==
    /\ Cardinality(Positions(df, c)) = 1
    /\ df.dtype[Pos(df, c)] = "object"
    /\ LET col == Column(df, Pos(df, c))
       IN  \/ \A r \in 1..NRows(df) : IsNa(col[r])
           \/ \E r \in 1..NRows(df) : col[r].k = "str"

\* for col in names: df[col] = df[col].str.<mode>(), stopping at the first
\* column that raises; the columns already assigned stay assigned.
RECURSIVE StrLoop(_, _, _)
StrLoop(df, names, mode) ==
    IF names = <<>> THEN Done(df)
    ELSE LET c == Head(names)
         IN  IF ~StrAccessorOK(df, c) THEN Raised(df)
             ELSE LET p == Pos(df, c)
                      vals == [r \in 1..NRows(df) |-> StrApply(mode, df.rows[r][p])]
                  IN  StrLoop(SetColumn(df, p, vals, "object"), Tail(names), mode)

\* df.select_dtypes(include=['object']).columns
ObjectColumns(df) == Pick(df.cols, {i \in 1..NCols(df) : df.dtype[i] = "object"})
\* The labels of names that are columns of df (if col in df.columns).
Present(df, names) == SelectSeq(names, LAMBDA c : HasCol(df, c))

\* for col in names: if col in df.columns: df[col] = pd.to_datetime(df[col],
\* errors='coerce'). A label that names several columns selects a DataFrame,
\* which to_datetime refuses.
RECURSIVE DatetimeLoop(_, _)
DatetimeLoop(df, names) ==
    IF names = <<>> THEN Done(df)
    ELSE LET c == Head(names)
         IN  IF Cardinality(Positions(df, c)) > 1 THEN Raised(df)
             ELSE LET p == Pos(df, c)
                      vals == [r \in 1..NRows(df) |-> ToDatetimeCell(df.rows[r][p])]
                  IN  DatetimeLoop(SetColumn(df, p, vals, "datetime64"), Tail(names))

\* The dtype pd.to_numeric gives a column of dtype dt whose converted cells are vals.
NumericDtype(dt, vals) ==
    IF dt \in {"int64", "float64", "bool"} THEN dt
    ELSE IF \E r \in 1..Len(vals) : IsNa(vals[r]) THEN "float64" ELSE "int64"

\* for col in names: if col in df.columns: df[col] = pd.to_numeric(df[col],
\* errors='coerce').
RECURSIVE NumericLoop(_, _)
NumericLoop(df, names) ==
    IF names = <<>> THEN Done(df)
    ELSE LET c == Head(names)
         IN  IF Cardinality(Positions(df, c)) > 1 THEN Raised(df)
             ELSE LET p == Pos(df, c)
                      vals == [r \in 1..NRows(df) |-> ToNumericCell(df.rows[r][p])]
                  IN  NumericLoop(SetColumn(df, p, vals, NumericDtype(df.dtype[p], vals)),
                                  Tail(names))

\* Series.fillna("00:00:00"): the missing cells become that text; a column of
\* another dtype that had a missing cell becomes an object column.
FillMidnight(df, c) ==
    LET p == Pos(df, c)
        vals == [r \in 1..NRows(df) |->
                    IF IsNa(df.rows[r][p]) THEN Str(Midnight) ELSE df.rows[r][p]]
        dt == IF \E r \in 1..NRows(df) : IsNa(df.rows[r][p]) THEN "object" ELSE df.dtype[p]
    IN  SetColumn(df, p, vals, dt)

\* Series.dt.strftime('%Y-%m-%d') of one cell.
StrftimeCell(v) == IF v.k = "ts" THEN Str(SubSeq(v.s, 1, 10)) ELSE NaN

\* One element of date_text + ' ' + time: missing when either side is
\* missing, the concatenation when both are text.
ConcatCell(d, t) ==
    IF IsNa(d) \/ IsNa(t) THEN NaN ELSE Str(d.s \o <<" ">> \o t.s)

\* The combine step of clean_transactions: fill the missing times, then build
\* transaction_datetime. It raises after the fill when transaction_date
\* is not a datetime column (no .dt accessor) or when a date text meets a time
\* that is not text (str + number).
CombineStep(df) ==
    IF ~(HasCol(df, "transaction_date") /\ HasCol(df, "transaction_time")) THEN Done(df)
    ELSE LET df1 == FillMidnight(df, "transaction_time")
             pd == Pos(df1, "transaction_date")
             pt == Pos(df1, "transaction_time")
             dates == [r \in 1..NRows(df1) |-> StrftimeCell(df1.rows[r][pd])]
         IN  IF df1.dtype[pd] # "datetime64" THEN Raised(df1)
             ELSE IF \E r \in 1..NRows(df1) :
                        ~IsNa(dates[r]) /\ df1.rows[r][pt].k # "str"
                  THEN Raised(df1)
                  ELSE Done(Assign(df1, "transaction_datetime",
                                   [r \in 1..NRows(df1) |->
                                       ToDatetimeCell(ConcatCell(dates[r], df1.rows[r][pt]))],
                                   "datetime64"))

\* DropNaKey with the removal left out.
DropNaKey_NoRemoval(df, key) == IF ~HasCol(df, key) THEN Raised(df) ELSE Done(df)

\* df.dropna(subset=[key], inplace=True): the rows with the key missing are
\* removed; KeyError when key is not a column.
DropNaKey(df, key) ==
    IF ~HasCol(df, key) THEN Raised(df)
    ELSE Done(KeepRows(df, {r \in 1..NRows(df) :
                               \A p \in Positions(df, key) : ~IsNa(df.rows[r][p])}))

\* df.reset_index(inplace=True): the index becomes the first column, under its
\* name, or "index" (or "level_0") when it has none; ValueError when a column
\* of that name exists, and then the table is as it was.
ResetIndexName(df) ==
    IF df.iname # "" THEN df.iname
    ELSE IF ~HasCol(df, "index") THEN "index" ELSE "level_0"
ResetIndex(df) ==
    IF HasCol(df, ResetIndexName(df)) THEN Raised(df)
    ELSE Done([cols |-> <<ResetIndexName(df)>> \o df.cols,
               dtype |-> <<df.idtype>> \o df.dtype,
               rows |-> [r \in 1..NRows(df) |-> <<df.idx[r]>> \o df.rows[r]],
               iname |-> "",
               idtype |-> "int64",
               idx |-> [r \in 1..NRows(df) |-> Num(r - 1)]])

\* df.rename(columns={old: new}, inplace=True)
RenameColumn(df, old, new) ==
    [df EXCEPT !.cols = [i \in 1..NCols(df) |-> IF df.cols[i] = old THEN new ELSE df.cols[i]]]

\* A cleaner under way: the table in hand and the try blocks that raised.
Start(df) == [df |-> df, raised |-> {}]

\* One try block: the table its body left, and its name among the raised
\* ones when the body raised.
Try(acc, name, res) ==
    [df |-> res.df, raised |-> IF res.ok THEN acc.raised ELSE acc.raised \cup {name}]

\* try: df.drop_duplicates(inplace=True)
DedupeStep(acc) == Try(acc, "dedupe", Done(DropDuplicates(acc.df)))

\* try: for col in df.select_dtypes(include=['object']).columns:
\*          df[col] = df[col].str.strip()
StripStep(acc) == Try(acc, "strip", StrLoop(acc.df, ObjectColumns(acc.df), "strip"))

\* try: the listed date columns that exist, through pd.to_datetime.
DatesStep(acc, date_cols) ==
    Try(acc, "dates", DatetimeLoop(acc.df, Present(acc.df, date_cols)))

\* try: transaction_date and transaction_time combined.
CombineTry(acc) == Try(acc, "combine", CombineStep(acc.df))

\* try: the listed numeric columns that exist, through pd.to_numeric.
NumericStep(acc, numeric_cols) ==
    Try(acc, "numeric", NumericLoop(acc.df, Present(acc.df, numeric_cols)))

\* try: for col in cols: if col in df.columns: df[col] = df[col].str.<mode>()
CaseStep(acc, name, cols, mode) ==
    Try(acc, name, StrLoop(acc.df, Present(acc.df, cols), mode))

\* try: if 'customer_id' in df.columns: df.dropna(subset=['customer_id'])
DropNaIfPresentStep(acc) ==
    Try(acc, "dropna",
        IF HasCol(acc.df, "customer_id") THEN DropNaKey(acc.df, "customer_id")
        ELSE Done(acc.df))

\* try: df.dropna(subset=['customer_id'], inplace=True)
DropNaStep(acc) == Try(acc, "dropna", DropNaKey(acc.df, "customer_id"))

\* try: df.reset_index(inplace=True); df.drop_duplicates(inplace=True)
ResetDedupeStep(acc) ==
    LET r == ResetIndex(acc.df)
    IN  Try(acc, "reset_dedupe", IF r.ok THEN Done(DropDuplicates(r.df)) ELSE r)

\* ----------------------------------------------------------------- cleaners
\* clean_transactions(df, date_cols, numeric_cols): eight try blocks in a row,
\* each working on what the ones before left.
CleanTransactions(df0, date_cols, numeric_cols) ==
    LET s1 == DedupeStep(Start(df0))
        s2 == StripStep(s1)
        s3 == DatesStep(s2, date_cols)
        s4 == CombineTry(s3)
        s5 == NumericStep(s4, numeric_cols)
        s6 == CaseStep(s5, "lower", <<"debit_credit">>, "lower")
        s7 == CaseStep(s6, "upper", <<"country", "province", "city">>, "upper")
    IN  DropNaIfPresentStep(s7)

\* clean_kyc_data(df): reset_index and drop_duplicates share the first try
\* block.
CleanKycData(df0) ==
    LET s1 == ResetDedupeStep(Start(df0))
        s2 == StripStep(s1)
        s3 == DatesStep(s2, <<"established_date", "onboard_date">>)
        s4 == NumericStep(s3, <<"sales", "employee_count">>)
        s5 == CaseStep(s4, "upper", <<"country", "province", "city", "industry_code">>, "upper")
    IN  DropNaStep(s5)

\* The body of the try block of clean_kyc_industry_codes, from reset_index on:
\* r is what reset_index left.
RenameStripUpper(r) ==
    IF ~r.ok THEN r
    ELSE StrLoop(RenameColumn(r.df, "index", "industry_code"),
                 ObjectColumns(RenameColumn(r.df, "index", "industry_code")),
                 "strip_upper")

\* clean_kyc_industry_codes(df): one try block around every step.
CleanKycIndustryCodes(df0) ==
    Try(Start(df0), "all", RenameStripUpper(ResetIndex(DropDuplicates(df0))))

\* ------------------------------------------------------- family processing
\* AbsCell with the sign kept.
AbsCell_SignKept(v) == v

\* Series.abs of one cell.
AbsCell(v) == IF v.k = "num" /\ v.n < 0 THEN Num(0 - v.n) ELSE v

\* Series.astype(bool) of one cell: zero and the empty text are False, every
\* other value (the missing-value marker too) is True.
AsBoolCell(v) ==
    CASE v.k = "bool" -> v
      [] v.k \in {"num", "obj"} -> Bool(v.n # 0)
      [] v.k = "str" -> Bool(v.s # <<>>)
      [] OTHER -> Bool(TRUE)

\* clean_bool_columns(df, bool_columns): each listed column that exists is
\* assigned its astype(bool), on the table passed in.
RECURSIVE CleanBoolColumns(_, _)
CleanBoolColumns(df, bool_columns) ==
    IF bool_columns = <<>> THEN df
    ELSE LET c == Head(bool_columns)
         IN  IF ~HasCol(df, c) THEN CleanBoolColumns(df, Tail(bool_columns))
             ELSE LET p == Pos(df, c)
                      vals == [r \in 1..NRows(df) |-> AsBoolCell(df.rows[r][p])]
                  IN  CleanBoolColumns(SetColumn(df, p, vals, "bool"), Tail(bool_columns))

\* The roles the preprocessing run declares for every transaction family.
DefaultDateCols == <<"transaction_date">>
DefaultNumericCols == <<"amount_cad">>
\* card_data['amount_cad'] = card_data['amount_cad'].abs(), c being what
\* clean_transactions returned: the table it leaves, and whether the script
\* goes on (abs raises TypeError on a column that is not numeric).
AbsAmount(c) ==
    IF ~HasCol(c.df, "amount_cad") THEN [df |-> c.df, raised |-> c.raised, ok |-> TRUE]
    ELSE IF c.df.dtype[Pos(c.df, "amount_cad")] \notin {"int64", "float64", "bool"}
         THEN [df |-> c.df, raised |-> c.raised, ok |-> FALSE]
         ELSE [df |-> SetColumn(c.df, Pos(c.df, "amount_cad"),
                                [r \in 1..NRows(c.df) |->
                                    AbsCell(c.df.rows[r][Pos(c.df, "amount_cad")])],
                                c.df.dtype[Pos(c.df, "amount_cad")]),
               raised |-> c.raised, ok |-> TRUE]
\* The card family in the preprocessing run, up to the absolute value:
\* clean_transactions with the declared roles, then abs.
PreprocessCardTable(df0) ==
    AbsAmount(CleanTransactions(df0, DefaultDateCols, DefaultNumericCols))

\* ------------------------------------------------------------ input tables
\* The texts the input tables are built from.
TxtA == <<"a">>
TxtUpperA == <<"A">>
TxtBlankA == <<" ", "a">>
TxtOne == <<"1">>
TxtOneBlank == <<"1", " ">>
TxtMinusOne == <<"-", "1">>
TxtDate == <<"2", "0", "2", "0", "-", "0", "1", "-", "0", "2">>
TxtTime == <<"0", "1", ":", "0", "2", ":", "0", "3">>
TxtYes == <<"Y">>
TxtNo == <<"N">>

\* The sequences of at most MaxRows elements of S.
SeqsUpTo(S) == UNION {[1..n -> S] : n \in 0..MaxRows}

\* The tables with the given columns, whose rows are drawn from Rows and
\* whose index is the default one (0, 1, ...), as read_csv gives without
\* index_col.
RangeTables(cols, dtype, Rows) ==
    {[cols |-> cols, dtype |-> dtype, rows |-> rs, iname |-> "", idtype |-> "int64",
      idx |-> [r \in 1..Len(rs) |-> Num(r - 1)]] : rs \in SeqsUpTo(Rows)}

\* The tables whose index was read from the first column of the file
\* (read_csv(index_col=0)): Rows holds pairs <<index label, row>>.
IndexedTables(cols, dtype, iname, idtype, Rows) ==
    {[cols |-> cols, dtype |-> dtype, rows |-> [r \in 1..Len(rs) |-> rs[r][2]],
      iname |-> iname, idtype |-> idtype,
      idx |-> [r \in 1..Len(rs) |-> rs[r][1]]] : rs \in SeqsUpTo(Rows)}

\* Transaction tables: key and amount as text, key and amount as numbers,
\* the geographic and debit/credit columns, and date with time of day.
TxAmountTables ==
    RangeTables(<<"customer_id", "amount_cad">>, <<"object", "object">>,
                {<<c, a>> : c \in {Str(TxtA), NaN, Obj(1)},
                            a \in {Str(TxtOne), Str(TxtOneBlank), Str(TxtMinusOne),
                                   Str(TxtA), NaN}})
TxNumberTables ==
    RangeTables(<<"customer_id", "amount_cad">>, <<"object", "float64">>,
                {<<c, a>> : c \in {Str(TxtA), NaN}, a \in {Num(1), Num(-1), NaN}})
TxGeoTables ==
    RangeTables(<<"customer_id", "country", "city", "debit_credit">>,
                <<"object", "object", "object", "object">>,
                {<<Str(TxtA), k, c, d>> : k \in {Str(TxtA), Str(TxtUpperA)},
                                          c \in {Str(TxtA), Str(TxtBlankA), NaN},
                                          d \in {Str(TxtA), Str(TxtUpperA)}})
TxEmptyCountryTables ==
    RangeTables(<<"customer_id", "country", "city", "debit_credit">>,
                <<"object", "float64", "object", "object">>,
                {<<Str(TxtA), NaN, c, d>> : c \in {Str(TxtA), Str(TxtUpperA), NaN},
                                            d \in {Str(TxtA), Str(TxtUpperA)}})
TxDateTables ==
    RangeTables(<<"customer_id", "transaction_date", "transaction_time">>,
                <<"object", "object", "object">>,
                {<<c, d, t>> : c \in {Str(TxtA), NaN},
                               d \in {Str(TxtDate), Str(TxtA), NaN},
                               t \in {Str(TxtTime), Str(TxtA), NaN}})
TxIndicatorTables ==
    RangeTables(<<"customer_id", "amount_cad", "ecommerce_ind">>,
                <<"object", "float64", "object">>,
                {<<Str(TxtA), Num(-1), e>> : e \in {Str(TxtYes), Str(TxtNo)}})
TxTables ==
    TxAmountTables \cup TxNumberTables \cup TxGeoTables \cup TxEmptyCountryTables
        \cup TxDateTables \cup TxIndicatorTables

\* KYC tables: the customer id in the index, named or not, and a table that
\* has a customer_id column besides its index of that name.
KycRows ==
    {<<i, <<s, c>>>> : i \in {Str(TxtA), Str(TxtBlankA), NaN},
                       s \in {Str(TxtOne), Str(TxtA)},
                       c \in {Str(TxtA), Str(TxtUpperA)}}
KycTables ==
    IndexedTables(<<"sales", "city">>, <<"object", "object">>, "customer_id", "object", KycRows)
        \cup IndexedTables(<<"sales", "city">>, <<"object", "object">>, "", "object", KycRows)
        \cup IndexedTables(<<"customer_id", "city">>, <<"object", "object">>, "customer_id",
                           "int64",
                           {<<i, <<c, t>>>> : i \in {Num(0), Num(1)},
                                              c \in {Str(TxtA), NaN},
                                              t \in {Str(TxtA), Str(TxtBlankA)}})

\* Industry-code tables: the code in the index, named or not, and the code in
\* a column, beside an index of row numbers with no name or with the name of
\* that column.
IndustryRows ==
    {<<i, <<t>>>> : i \in {Str(TxtA), Str(TxtUpperA), NaN},
                    t \in {Str(TxtA), Str(TxtBlankA), NaN}}
IndustryTables ==
    IndexedTables(<<"industry">>, <<"object">>, "industry_code", "object", IndustryRows)
        \cup IndexedTables(<<"industry">>, <<"object">>, "", "object", IndustryRows)
        \cup RangeTables(<<"industry_code", "industry">>, <<"object", "object">>,
                         {<<c, t>> : c \in {Str(TxtA), NaN}, t \in {Str(TxtA), Str(TxtBlankA)}})
        \cup IndexedTables(<<"industry_code", "industry">>, <<"object", "object">>,
                           "industry_code", "int64",
                           {<<Num(0), <<c, t>>>> : c \in {Str(TxtA), NaN},
                                                   t \in {Str(TxtA), Str(TxtBlankA)}})

\* The table of no rows and no columns: the value of a table variable that
\* holds nothing yet.
NoTable == [cols |-> <<>>, dtype |-> <<>>, rows |-> <<>>, iname |-> "", idtype |-> "int64",
            idx |-> <<>>]

\* ------------------------------------------------------------------- state
VARIABLES
    stage,    \* the stage function the caller runs on its table
    pc,       \* "start", "abs_done" (card: before clean_bool_columns), "cleaned" (the call
              \* returned), "again" (called on its own output), "crashed"
    df0,      \* the caller's table as it was when passed in
    df,       \* the caller's table
    params,   \* the column roles passed to clean_transactions
    out,      \* the table the call returned
    raised,   \* the rule steps of the call that raised
    out2,     \* the table returned by the call on out
    passed,   \* the table passed to clean_bool_columns, as it was when passed
    mpc,      \* main(): "loop" (the six files), "embed", "done", "aborted" (an exception left main)
    fi,       \* main(): the position in transaction_files of the file in hand
    rpc,      \* run_anomaly_detection: "idle", "loaded", "scored", "returned", "raised"
    sdf0,     \* run_anomaly_detection: the table as read_csv returned it
    sdf,      \* run_anomaly_detection: its table df
    comp,     \* how the computation of the stage call in hand, or just ended, went
    artifact, \* the output directory of task 1: the state of each file's artifact
    epc,      \* generate_customer_embeddings: "idle", "loaded", "computed", "returned", "raised"
    ekyc,     \* generate_customer_embeddings: the KYC table df
    elines,   \* generate_customer_embeddings: output_lines
    efile     \* the embeddings artifact: its state and the lines written to it

normVars == <<stage, pc, df0, df, params, out, raised, out2, passed>>
pipeVars == <<mpc, fi, rpc, sdf0, sdf, comp, artifact, epc, ekyc, elines, efile>>
vars == <<normVars, pipeVars>>

\* transaction_files of main() has six entries.
NumFiles == 6

\* The pipeline at rest: what its variables hold while the Normalizer runs.
PipelineIdle ==
    /\ mpc = "idle" /\ fi = 1 /\ rpc = "idle"
    /\ sdf0 = NoTable /\ sdf = NoTable
    /\ comp = "none"
    /\ artifact = [f \in 1..NumFiles |-> "absent"]
    /\ epc = "idle" /\ ekyc = NoTable /\ elines = <<>>
    /\ efile = [state |-> "absent", lines |-> <<>>]

\* The column roles a caller declares: those of the preprocessing run, and no
\* date column declared.
ParamChoices ==
    {[date_cols |-> DefaultDateCols, numeric_cols |-> DefaultNumericCols],
     [date_cols |-> <<>>, numeric_cols |-> DefaultNumericCols]}
DefaultParams == [date_cols |-> DefaultDateCols, numeric_cols |-> DefaultNumericCols]

Init ==
    /\ \/ stage \in {"transactions", "card"} /\ df \in TxTables
       \/ stage = "kyc" /\ df \in KycTables
       \/ stage = "industry" /\ df \in IndustryTables
    /\ df0 = df
    /\ pc = "start"
    /\ params = DefaultParams
    /\ out = NoTable
    /\ raised = {}
    /\ out2 = NoTable
    /\ passed = NoTable
    /\ PipelineIdle

\* The cleaner of a stage, applied to a table.
Cleaner(st, t, p) ==
    CASE st = "transactions" -> CleanTransactions(t, p.date_cols, p.numeric_cols)
      [] st = "kyc" -> CleanKycData(t)
      [] OTHER -> CleanKycIndustryCodes(t)

CallCleanTransactions ==
    /\ pc = "start" /\ stage = "transactions"
    /\ \E p \in ParamChoices :
          /\ params' = p
          /\ \E c \in {CleanTransactions(df, p.date_cols, p.numeric_cols)} :
                out' = c.df /\ raised' = c.raised
    /\ pc' = "cleaned"
    /\ UNCHANGED <<stage, df0, df, out2, passed, pipeVars>>

CallCleanKycData ==
    /\ pc = "start" /\ stage = "kyc"
    /\ \E c \in {CleanKycData(df)} : out' = c.df /\ raised' = c.raised
    /\ pc' = "cleaned"
    /\ UNCHANGED <<stage, df0, df, params, out2, passed, pipeVars>>

CallCleanKycIndustryCodes ==
    /\ pc = "start" /\ stage = "industry"
    /\ \E c \in {CleanKycIndustryCodes(df)} : out' = c.df /\ raised' = c.raised
    /\ pc' = "cleaned"
    /\ UNCHANGED <<stage, df0, df, params, out2, passed, pipeVars>>

\* The card family of the preprocessing run: clean_transactions, then abs.
PreprocessCard ==
    /\ pc = "start" /\ stage = "card"
    /\ \E c \in {PreprocessCardTable(df)} :
          /\ out' = c.df
          /\ raised' = c.raised
          /\ pc' = IF c.ok THEN "abs_done" ELSE "crashed"
    /\ UNCHANGED <<stage, df0, df, params, out2, passed, pipeVars>>

\* card_data = clean_bool_columns(card_data, ['ecommerce_ind']): the function
\* assigns the columns of the table it was passed and returns that table.
CallCleanBoolColumns ==
    /\ pc = "abs_done" /\ stage = "card"
    /\ passed' = out
    /\ out' = CleanBoolColumns(out, <<"ecommerce_ind">>)
    /\ pc' = "cleaned"
    /\ UNCHANGED <<stage, df0, df, params, raised, out2, pipeVars>>

\* The cleaner run once more, on the table it returned.
CleanAgain ==
    /\ pc = "cleaned" /\ stage \in {"transactions", "kyc", "industry"}
    /\ out2' = Cleaner(stage, out, params).df
    /\ pc' = "again"
    /\ UNCHANGED <<stage, df0, df, params, out, raised, passed, pipeVars>>

Next ==
    \/ CallCleanTransactions
    \/ CallCleanKycData
    \/ CallCleanKycIndustryCodes
    \/ PreprocessCard
    \/ CallCleanBoolColumns
    \/ CleanAgain

Spec == Init /\ [][Next]_vars

\* ========================================================== Outlier Scorer
\* What IsolationForest.fit_predict can do with the feature columns avail of
\* table t: raise (no rows, or a text that is no number: always; a missing
\* value: where the library refuses them), or give each row 1 (inlier) or -1
\* (outlier).
FitPredictOutcomes(t, avail) ==
    LET cells == {t.rows[r][Pos(t, avail[i])] : r \in 1..NRows(t), i \in 1..Len(avail)}
        mustRaise == NRows(t) = 0 \/ \E v \in cells : v.k \in {"str", "ts"}
        mayRaise == \E v \in cells : IsNa(v)
    IN  (IF mustRaise \/ mayRaise THEN {[raised |-> TRUE, scores |-> <<>>]} ELSE {})
            \cup (IF mustRaise THEN {}
                  ELSE {[raised |-> FALSE, scores |-> sc] :
                            sc \in [1..NRows(t) -> {Num(-1), Num(1)}]})

\* No model was fitted (no feature column to fit it on).
NotFitted == [raised |-> FALSE, scores |-> <<>>]

\* IsOutlier with the inlier label taken for the sentinel.
IsOutlier_InlierLabel(score) == Bool(score = Num(1))

\* The value of df['anomaly_score'] == -1 for one score.
IsOutlier(score) == Bool(score = Num(-1))

\* DetectAnomalies without the check that a feature column exists: the two
\* columns are added whenever the model did not raise.
DetectAnomalies_NoFeatureCheck(t, features, fit) ==
    LET scores == IF fit.scores = <<>> THEN [r \in 1..NRows(t) |-> Num(1)] ELSE fit.scores
    IN  IF fit.raised THEN [df |-> t, status |-> "model_failed"]
        ELSE [df |-> Assign(Assign(t, "anomaly_score", scores, "int64"),
                            "is_anomaly",
                            [r \in 1..NRows(t) |-> IsOutlier(scores[r])],
                            "bool"),
              status |-> IF Present(t, features) = <<>> THEN "no_feature" ELSE "scored"]

\* detect_anomalies(df, contamination, features), given what fit_predict does:
\* the table it leaves in df (which it also returns) and how it ended.
DetectAnomalies(t, features, fit) ==
    LET avail == Present(t, features)
    IN  IF avail = <<>> THEN [df |-> t, status |-> "no_feature"]
        ELSE IF fit.raised THEN [df |-> t, status |-> "model_failed"]
             ELSE [df |-> Assign(Assign(t, "anomaly_score", fit.scores, "int64"),
                                 "is_anomaly",
                                 [r \in 1..NRows(t) |-> IsOutlier(fit.scores[r])],
                                 "bool"),
                   status |-> "scored"]

\* The feature list main() and the script pass.
ScoreFeatures == <<"amount_cad">>

\* What a cleaned transaction file holds when read back: with or without
\* the amount column.
ScoreTables ==
    RangeTables(<<"customer_id", "amount_cad">>, <<"object", "float64">>,
                {<<Str(TxtA), a>> : a \in {Num(1), NaN}})
        \cup RangeTables(<<"customer_id">>, <<"object">>, {<<Str(TxtA)>>})

\* What a write to a path can leave there: the whole file, nothing (the open
\* failed), or a part of it (the write failed part-way).
WriteOutcomes == {"complete", "absent", "partial"}

\* run_anomaly_detection: read_csv fails; it logs and returns.
RadLoadFails ==
    /\ mpc = "loop" /\ rpc = "idle"
    /\ comp' = "load_failed"
    /\ rpc' = "returned"
    /\ UNCHANGED <<mpc, fi, sdf0, sdf, artifact, epc, ekyc, elines, efile, normVars>>

\* run_anomaly_detection: read_csv returns the table of the file.
RadLoad ==
    /\ mpc = "loop" /\ rpc = "idle"
    /\ \E t \in ScoreTables : sdf0' = t /\ sdf' = t
    /\ comp' = "loaded"
    /\ rpc' = "loaded"
    /\ UNCHANGED <<mpc, fi, artifact, epc, ekyc, elines, efile, normVars>>

\* run_anomaly_detection: df = detect_anomalies(df, ...). An exception of the
\* model is caught nowhere: it leaves run_anomaly_detection and main().
RadDetect ==
    /\ mpc = "loop" /\ rpc = "loaded"
    /\ \E fit \in IF Present(sdf, ScoreFeatures) = <<>> THEN {NotFitted}
                  ELSE FitPredictOutcomes(sdf, Present(sdf, ScoreFeatures)) :
          LET d == DetectAnomalies(sdf, ScoreFeatures, fit)
          IN  /\ sdf' = d.df
              /\ comp' = d.status
              /\ rpc' = IF d.status = "model_failed" THEN "raised" ELSE "scored"
              /\ mpc' = IF d.status = "model_failed" THEN "aborted" ELSE mpc
    /\ UNCHANGED <<fi, sdf0, artifact, epc, ekyc, elines, efile, normVars>>

\* run_anomaly_detection: df.to_csv(output_path); a failure is logged.
RadWrite ==
    /\ mpc = "loop" /\ rpc = "scored"
    /\ \E w \in WriteOutcomes : artifact' = [artifact EXCEPT ![fi] = w]
    /\ rpc' = "returned"
    /\ UNCHANGED <<mpc, fi, sdf0, sdf, comp, epc, ekyc, elines, efile, normVars>>

\* main(): run_anomaly_detection returned; on to the next file, or to the
\* embeddings after the last.
MainNextFile ==
    /\ mpc = "loop" /\ rpc = "returned"
    /\ rpc' = "idle"
    /\ sdf0' = NoTable /\ sdf' = NoTable
    /\ comp' = "none"
    /\ IF fi = NumFiles THEN mpc' = "embed" /\ fi' = fi ELSE mpc' = mpc /\ fi' = fi + 1
    /\ UNCHANGED <<artifact, epc, ekyc, elines, efile, normVars>>

\* ====================================================== Embedding Generator
\* build_autoencoder(input_dim, embedding_dim=16)
EmbeddingDim == 16

\* The feature columns main() and the script pass.
EmbeddingFeatures == <<"employee_count", "sales">>

\* fillna(0) of one cell.
FillZero(v) == IF IsNa(v) THEN Num(0) ELSE v

\* The smallest and the largest of a non-empty set of numbers.
MinOf(S) == CHOOSE x \in S : \A y \in S : x <= y
MaxOf(S) == CHOOSE x \in S : \A y \in S : y <= x

\* (x - min) / (max - min + 1e-6), in thousandths, rounded down.
MinMax(x, mn, mx) == ((x - mn) * 1000000000) \div ((mx - mn) * 1000000 + 1)

\* preprocess_kyc_data(df, feature_cols): the feature matrix, one row of
\* normalized values per table row.
PreprocessKycData(t, feature_cols) ==
    LET val(r, i) == FillZero(t.rows[r][Pos(t, feature_cols[i])]).n
        colvals(i) == {val(r, i) : r \in 1..NRows(t)}
    IN  [r \in 1..NRows(t) |->
            [i \in 1..Len(feature_cols) |->
                MinMax(val(r, i), MinOf(colvals(i)), MaxOf(colvals(i)))]]

\* str(x) of a cell (Series.astype(str)).
RECURSIVE DecText(_)
DecText(n) ==
    IF n < 10 THEN <<CHOOSE c \in Digits : DigitVal(c) = n>>
    ELSE DecText(n \div 10) \o <<CHOOSE c \in Digits : DigitVal(c) = n % 10>>
AsText(v) ==
    CASE v.k \in {"str", "ts"} -> v.s
      [] v.k \in {"num", "obj"} -> IF v.n < 0 THEN <<"-">> \o DecText(0 - v.n) ELSE DecText(v.n)
      [] v.k = "bool" -> IF v.n = 1 THEN <<"T", "r", "u", "e">> ELSE <<"F", "a", "l", "s", "e">>
      [] OTHER -> <<"n", "a", "n">>

\* f"{x:.8f}" of a whole number x >= 0.
Fixed8(x) == DecText(x) \o <<".", "0", "0", "0", "0", "0", "0", "0", "0">>

\* ", ".join(fields)
RECURSIVE JoinComma(_)
JoinComma(fields) ==
    IF fields = <<>> THEN <<>>
    ELSE IF Len(fields) = 1 THEN fields[1]
         ELSE fields[1] \o <<",", " ">> \o JoinComma(Tail(fields))

\* OutputLine without the customer id.
OutputLine_IdDropped(cid, emb) == JoinComma([j \in 1..Len(emb) |-> Fixed8(emb[j])])

\* One entry of output_lines, f"{cid}, {emb_str}": the text of the customer
\* id, then the values of the embedding joined by ", ".
OutputLine(cid, emb) ==
    AsText(cid) \o <<",", " ">> \o JoinComma([j \in 1..Len(emb) |-> Fixed8(emb[j])])

\* The values an embedding takes here (the encoder ends in a relu: none is
\* negative); one row's vector repeats one of them.
EmbeddingValues == {0, 1}

\* What generate_customer_embeddings computes from the table it loaded, e
\* being what the trained encoder gives each row: output_lines, or an
\* exception (a feature column or customer_id is not in the table: KeyError;
\* no rows to train on).
ComputeEmbeddings(t, feature_cols, e) ==
    IF \E i \in 1..Len(feature_cols) : ~HasCol(t, feature_cols[i])
    THEN [raised |-> TRUE, lines |-> <<>>]
    ELSE LET X == PreprocessKycData(t, feature_cols)
             embeddings == [r \in 1..Len(X) |-> [j \in 1..EmbeddingDim |-> e[r]]]
         IN  IF Len(X) = 0 \/ ~HasCol(t, "customer_id")
             THEN [raised |-> TRUE, lines |-> <<>>]
             ELSE [raised |-> FALSE,
                   lines |-> [r \in 1..Len(X) |->
                                 OutputLine(t.rows[r][Pos(t, "customer_id")], embeddings[r])]]

\* What the cleaned KYC file holds when read back: with every column, without
\* the sales column, without the customer_id column.
EmbeddingTables ==
    RangeTables(<<"customer_id", "employee_count", "sales">>,
                <<"object", "float64", "float64">>,
                {<<Str(TxtA), NaN, Num(1)>>, <<Str(TxtUpperA), Num(1), Num(1)>>})
        \cup RangeTables(<<"customer_id", "employee_count">>, <<"object", "float64">>,
                         {<<Str(TxtA), Num(1)>>})
        \cup RangeTables(<<"employee_count", "sales">>, <<"float64", "float64">>,
                         {<<Num(1), Num(1)>>})

\* generate_customer_embeddings: load_kyc_data returns None; it logs and
\* returns.
EmbLoadFails ==
    /\ mpc = "embed" /\ epc = "idle"
    /\ comp' = "load_failed"
    /\ epc' = "returned"
    /\ mpc' = "done"
    /\ UNCHANGED <<fi, rpc, sdf0, sdf, artifact, ekyc, elines, efile, normVars>>

\* generate_customer_embeddings: load_kyc_data returns the table.
EmbLoad ==
    /\ mpc = "embed" /\ epc = "idle"
    /\ ekyc' \in EmbeddingTables
    /\ comp' = "loaded"
    /\ epc' = "loaded"
    /\ UNCHANGED <<mpc, fi, rpc, sdf0, sdf, artifact, elines, efile, normVars>>

\* generate_customer_embeddings: preprocess, train, predict, build
\* output_lines. An exception is caught nowhere: it leaves main().
EmbCompute ==
    /\ mpc = "embed" /\ epc = "loaded"
    /\ \E e \in [1..NRows(ekyc) -> EmbeddingValues] :
          LET c == ComputeEmbeddings(ekyc, EmbeddingFeatures, e)
          IN  /\ elines' = c.lines
              /\ comp' = IF c.raised THEN "model_failed" ELSE "computed"
              /\ epc' = IF c.raised THEN "raised" ELSE "computed"
              /\ mpc' = IF c.raised THEN "aborted" ELSE mpc
    /\ UNCHANGED <<fi, rpc, sdf0, sdf, artifact, ekyc, efile, normVars>>

\* generate_customer_embeddings: open the file and write the lines one by
\* one; a failure is logged, and what was written stays.
EmbWrite ==
    /\ mpc = "embed" /\ epc = "computed"
    /\ \/ efile' = [state |-> "complete", lines |-> elines]
       \/ efile' = [state |-> "absent", lines |-> <<>>]
       \/ \E k \in 0..(Len(elines) - 1) :
             efile' = [state |-> "partial", lines |-> SubSeq(elines, 1, k)]
    /\ epc' = "returned"
    /\ mpc' = "done"
    /\ UNCHANGED <<fi, rpc, sdf0, sdf, comp, artifact, ekyc, elines, normVars>>

\* main() starts on the first of its files, the output directories empty.
InitPipeline ==
    /\ stage = "none" /\ pc = "idle"
    /\ df0 = NoTable /\ df = NoTable
    /\ params = DefaultParams
    /\ out = NoTable /\ raised = {} /\ out2 = NoTable /\ passed = NoTable
    /\ mpc = "loop" /\ fi = 1 /\ rpc = "idle"
    /\ sdf0 = NoTable /\ sdf = NoTable
    /\ comp = "none"
    /\ artifact = [f \in 1..NumFiles |-> "absent"]
    /\ epc = "idle" /\ ekyc = NoTable /\ elines = <<>>
    /\ efile = [state |-> "absent", lines |-> <<>>]

NextPipeline ==
    \/ RadLoadFails
    \/ RadLoad
    \/ RadDetect
    \/ RadWrite
    \/ MainNextFile
    \/ EmbLoadFails
    \/ EmbLoad
    \/ EmbCompute
    \/ EmbWrite

SpecPipeline == InitPipeline /\ [][NextPipeline]_vars

\* ================================================================== claims
\* The call on the caller's table has returned a table.
Returned == pc \in {"cleaned", "again"}

\* The cells of row r of table t under the label c.
Cells(t, c, r) == {t.rows[r][p] : p \in Positions(t, c)}

\* The required key of a stage's table.
KeyOf(st) == IF st = "industry" THEN "industry_code" ELSE "customer_id"

\* The rows of t with the key missing.
RowsMissing(t, key) == {r \in 1..NRows(t) : \E v \in Cells(t, key, r) : IsNa(v)}

C2_NoDuplicateRows ==
    pc = "cleaned" /\ stage = "transactions"
        => \A i, j \in 1..NRows(out) : i # j => out.rows[i] # out.rows[j]

\* Two tables with the same columns, rows and cells.
SameTable(a, b) == a.cols = b.cols /\ a.rows = b.rows

\* C3: a cleaner applied to its own output returns that output: no row
\* removed, no column added, no cell changed.
C3_Idempotent ==
    pc = "again" => SameTable(out2, out)

\* reset_index and drop_duplicates, each in a try block of its own.
ResetStep(acc) == Try(acc, "reset", ResetIndex(acc.df))

\* clean_kyc_data with every rule step in a try block of its own: a step that
\* raises leaves the table as it was when it raised, and the next step runs.
IsolatedCleanKycData(t0) ==
    LET s1 == DedupeStep(ResetStep(Start(t0)))
        s2 == StripStep(s1)
        s3 == DatesStep(s2, <<"established_date", "onboard_date">>)
        s4 == NumericStep(s3, <<"sales", "employee_count">>)
        s5 == CaseStep(s4, "upper", <<"country", "province", "city", "industry_code">>, "upper")
    IN  DropNaStep(s5).df

\* clean_kyc_industry_codes with every rule step in a try block of its own.
RenameStep(acc) == [acc EXCEPT !.df = RenameColumn(acc.df, "index", "industry_code")]
IsolatedCleanKycIndustryCodes(t0) ==
    LET s1 == RenameStep(ResetStep(DedupeStep(Start(t0))))
    IN  Try(s1, "strip_upper", StrLoop(s1.df, ObjectColumns(s1.df), "strip_upper")).df

\* clean_transactions has every rule step in a try block of its own.
IsolatedCleaner(st, t, p) ==
    CASE st = "transactions" -> CleanTransactions(t, p.date_cols, p.numeric_cols).df
      [] st = "kyc" -> IsolatedCleanKycData(t)
      [] OTHER -> IsolatedCleanKycIndustryCodes(t)

\* C6: when a rule step of a cleaner raises, every other rule step is still
\* applied: the table returned is that of all the rules but the failing one.
C6_RuleStepIsolation ==
    pc = "cleaned" /\ stage \in {"transactions", "kyc", "industry"}
        => out = IsolatedCleaner(stage, df0, params)

\* The texts of row r of t under the label c.
Texts(t, c, r) == {v.s : v \in {w \in Cells(t, c, r) : w.k = "str"}}

\* C9: in the table clean_transactions returns, every value of country,
\* province and city is its own uppercase form and every value of
\* debit_credit its own lowercase form.
C9_CaseNormalized ==
    pc = "cleaned" /\ stage = "transactions"
        => \A r \in 1..NRows(out) :
              /\ \A c \in {"country", "province", "city"} :
                    \A s \in Texts(out, c, r) : s = Upper(s)
              /\ \A s \in Texts(out, "debit_credit", r) : s = Lower(s)

\* C10 as stated: every row of the cleaned card table has amount_cad >= 0,
\* the rows whose raw amount could not be parsed included.
C10_CardAmountNonNegative ==
    pc = "cleaned" /\ stage = "card"
        => \A r \in 1..NRows(out) :
              \A v \in Cells(out, "amount_cad", r) : v.k = "num" /\ v.n >= 0

\* C10 as amended: every row of the cleaned card table has amount_cad >= 0 or
\* amount_cad missing (the raw amount was missing or could not be parsed).
C10_CardAmountNonNegativeOrMissing ==
    pc = "cleaned" /\ stage = "card"
        => \A r \in 1..NRows(out) :
              \A v \in Cells(out, "amount_cad", r) : IsNa(v) \/ (v.k = "num" /\ v.n >= 0)

\* C10's case: a card table with a negative raw amount, as text, was cleaned
\* and the row carries the magnitude.
C10_Witness ==
    /\ pc = "cleaned" /\ stage = "card"
    /\ \E r \in 1..NRows(df0) : Str(TxtMinusOne) \in Cells(df0, "amount_cad", r)
    /\ \E r \in 1..NRows(out) : Num(1) \in Cells(out, "amount_cad", r)
    /\ \A r \in 1..NRows(out) : Num(1) \in Cells(out, "amount_cad", r)

\* detect_anomalies has returned to run_anomaly_detection.
DetectReturned == comp \in {"no_feature", "scored"}

\* C4: when a requested feature column exists, detect_anomalies returns the
\* input rows, in their order and none dropped, with the two columns added,
\* and in every row is_anomaly is true exactly when anomaly_score is -1.
C4_AnomalyAdditivity ==
    DetectReturned /\ Present(sdf0, ScoreFeatures) # <<>>
        => /\ NRows(sdf) = NRows(sdf0)
           /\ sdf.cols = sdf0.cols \o <<"anomaly_score", "is_anomaly">>
           /\ \A r \in 1..NRows(sdf) :
                 /\ SubSeq(sdf.rows[r], 1, NCols(sdf0)) = sdf0.rows[r]
                 /\ sdf.rows[r][Pos(sdf, "anomaly_score")] \in {Num(-1), Num(1)}
                 /\ sdf.rows[r][Pos(sdf, "is_anomaly")] = Bool(TRUE)
                       <=> sdf.rows[r][Pos(sdf, "anomaly_score")] = Num(-1)
                 /\ sdf.rows[r][Pos(sdf, "is_anomaly")] = Bool(FALSE)
                       <=> sdf.rows[r][Pos(sdf, "anomaly_score")] # Num(-1)

\* C4's case: a table of two rows was scored, one row an outlier and the
\* other not.
C4_Witness ==
    /\ rpc = "scored" /\ comp = "scored"
    /\ NRows(sdf0) = 2
    /\ sdf.rows[1][Pos(sdf, "is_anomaly")] = Bool(TRUE)
    /\ sdf.rows[2][Pos(sdf, "is_anomaly")] = Bool(FALSE)

\* detect_anomalies was called and is over, by a return or by an exception.
DetectOver == comp \in {"no_feature", "scored", "model_failed"} /\ epc = "idle"

\* C5: when no requested feature column exists, detect_anomalies does not
\* fail and returns the input table as it was, with no anomaly_score and no
\* is_anomaly column.
C5_NoFeatureUnchanged ==
    DetectOver /\ Present(sdf0, ScoreFeatures) = <<>>
        => /\ rpc # "raised" /\ mpc # "aborted"
           /\ comp = "no_feature"
           /\ sdf = sdf0
           /\ ~HasCol(sdf, "anomaly_score") /\ ~HasCol(sdf, "is_anomaly")

\* C5's case: detect_anomalies returned for a table with rows and without
\* the amount column.
C5_Witness ==
    /\ rpc = "scored"
    /\ ~HasCol(sdf0, "amount_cad")
    /\ NRows(sdf0) = 2
    /\ sdf = sdf0

\* C7: a stage whose computation failed or could not be performed (load
\* failure, no usable feature column, model failure, a write that failed
\* part-way) has produced no artifact, whole or partial.
C7_StageAtomicity ==
    /\ \A f \in 1..NumFiles : artifact[f] # "partial"
    /\ efile.state # "partial"
    /\ rpc = "returned" /\ comp \in {"load_failed", "no_feature"} => artifact[fi] = "absent"
    /\ rpc = "raised" => artifact[fi] = "absent"
    /\ epc \in {"returned", "raised"} /\ comp \in {"load_failed", "model_failed"}
          => efile.state = "absent"

\* C8: a failure on one of the six files never aborts main(): when main() is
\* over, every file was processed and the embeddings were attempted.
C8_BatchContinuation ==
    mpc \in {"done", "aborted"} => fi = NumFiles /\ rpc # "raised" /\ epc # "idle"

\* The date and the numeric columns a stage's cleaner coerces.
DeclaredDateCols(st, p) ==
    IF st = "kyc" THEN <<"established_date", "onboard_date">> ELSE p.date_cols
DeclaredNumericCols(st, p) ==
    IF st = "kyc" THEN <<"sales", "employee_count">> ELSE p.numeric_cols

\* Whether the rows of input table t carry a customer id: in a column, or
\* in the index of that name (clean_kyc_data makes it a column).
HasCustomerId(t) == HasCol(t, "customer_id") \/ t.iname = "customer_id"

\* The customer id cells of row r of input table t.
CustomerIdOf(t, r) ==
    IF HasCol(t, "customer_id") THEN Cells(t, "customer_id", r) ELSE {t.idx[r]}

\* Row r of input table t as drop_duplicates compares it in the stage st: the
\* index counts as a column in clean_kyc_data, which resets it first.
InputRow(st, t, r) == IF st = "kyc" THEN <<t.idx[r]>> \o t.rows[r] ELSE t.rows[r]

\* The distinct rows of input table t whose customer id is not missing.
DistinctKeyedRows(st, t) ==
    {InputRow(st, t, r) : r \in {q \in 1..NRows(t) : \A v \in CustomerIdOf(t, q) : ~IsNa(v)}}

\* Every cell of the declared date and numeric columns of the returned table
\* is a timestamp, a number, or the missing-value marker.
CoercedOrMissing ==
    /\ \A i \in 1..Len(DeclaredNumericCols(stage, params)) :
          \A r \in 1..NRows(out) :
             \A v \in Cells(out, DeclaredNumericCols(stage, params)[i], r) :
                v.k \in {"num", "nan"}
    /\ \A i \in 1..Len(DeclaredDateCols(stage, params)) :
          \A r \in 1..NRows(out) :
             \A v \in Cells(out, DeclaredDateCols(stage, params)[i], r) :
                v.k \in {"ts", "nan"}

\* C11: clean_transactions and clean_kyc_data return, a value of a declared
\* date or numeric column that cannot be parsed is the missing-value marker
\* in the returned table, and the returned table has as many rows as the
\* input has distinct rows with a customer_id that is not missing.
C11_CoercionKeepsRows ==
    pc = "cleaned" /\ stage \in {"transactions", "kyc"} /\ HasCustomerId(df0)
        => /\ CoercedOrMissing
           /\ NRows(out) = Cardinality(DistinctKeyedRows(stage, df0))

\* The number of digits s starts with.
RECURSIVE LeadingDigits(_)
LeadingDigits(s) ==
    IF s # <<>> /\ Head(s) \in Digits THEN 1 + LeadingDigits(Tail(s)) ELSE 0

\* A count that no line reaches: the text is not a run of numeric fields.
Malformed == 0 - 1000

\* The number of fields of s when s is a run of fields ", <digits>.<eight
\* digits>", and Malformed when it is not.
RECURSIVE NumericFields(_)
NumericFields(s) ==
    IF s = <<>> THEN 0
    ELSE IF Len(s) < 2 \/ s[1] # "," \/ s[2] # " " THEN Malformed
         ELSE LET t == SubSeq(s, 3, Len(s))
                  n == LeadingDigits(t)
              IN  IF n = 0 \/ Len(t) < n + 9 THEN Malformed
                  ELSE IF t[n + 1] # "." \/ ~AllDigits(SubSeq(t, n + 2, n + 9)) THEN Malformed
                       ELSE 1 + NumericFields(SubSeq(t, n + 10, Len(t)))

\* The text of the customer id of row r of the KYC table as loaded.
CustomerIdText(r) == AsText(ekyc.rows[r][Pos(ekyc, "customer_id")])

\* C12: when generate_customer_embeddings has written its file whole, the file
\* has one line per row of the KYC table it loaded, in the order of the rows,
\* and each line is the customer id of its row followed by exactly 16 numeric
\* fields of 8 decimals.
C12_EmbeddingShape ==
    efile.state = "complete"
        => /\ Len(efile.lines) = NRows(ekyc)
           /\ \A r \in 1..NRows(ekyc) :
                 /\ Len(efile.lines[r]) >= Len(CustomerIdText(r))
                 /\ SubSeq(efile.lines[r], 1, Len(CustomerIdText(r))) = CustomerIdText(r)
                 /\ NumericFields(SubSeq(efile.lines[r], Len(CustomerIdText(r)) + 1,
                                         Len(efile.lines[r]))) = EmbeddingDim

\* C12's case: the file was written whole for a table of two customers with
\* different ids, whose lines differ.
C12_Witness ==
    /\ efile.state = "complete"
    /\ NRows(ekyc) = 2
    /\ CustomerIdText(1) # CustomerIdText(2)
    /\ Len(efile.lines) = 2
    /\ efile.lines[1] # efile.lines[2]

\* C13: after a stage function has returned, the table the caller passed to
\* it has the columns and the cells it had when passed: clean_transactions,
\* clean_kyc_data and clean_kyc_industry_codes (df, passed as df0),
\* clean_bool_columns (out, passed as passed) and detect_anomalies (sdf,
\* passed as sdf0).
C13_InputUnchanged ==
    /\ pc \in {"cleaned", "again"} /\ stage \in {"transactions", "kyc", "industry"}
          => SameTable(df, df0)
    /\ pc = "cleaned" /\ stage = "card" => SameTable(out, passed)
    /\ DetectReturned => SameTable(sdf, sdf0)
====
